---- MODULE Spec2Model ----
(***************************************************************************)
(* CHANC-AI, src/app.py: the report pipeline accion_principal and the      *)
(* adapters it sequences (obtener_datos_myshiptracking, obtener_clima,     *)
(* obtener_datos_gfw, analizar_con_ia).                                    *)
(*                                                                         *)
(* Representation.  Python None is NULL for scalar fields and <<>> for the *)
(* coordinate pair.  A user-visible string is a record [text, detail]:     *)
(* text names the literal of the source (accents dropped), detail says     *)
(* what the f-string or the provider put in it ("none", the provider's     *)
(* "message" field, or the text of a caught exception).  An exception that *)
(* leaves a function is a record [exc, in].  A timestamp is a positive     *)
(* integer (ISO-8601 strings of one format order like instants); the empty *)
(* string, the sort key of an event without "start", is 0.                 *)
(***************************************************************************)
EXTENDS Integers, Sequences, FiniteSets, TLC

VARIABLES
    pc,              \* position of the request in accion_principal / obtener_datos_gfw
    keys,            \* module globals read at start-up: which API keys are set
    calls,           \* the adapters invoked so far, in order
    datos_posicion,  \* accion_principal: result of the position adapter
    coordenadas,     \* accion_principal: <<>> (None) or <<lat, lon>>
    weather_query,   \* the location query handed to obtener_clima
    clima_actual,    \* accion_principal: weather block of the brief
    gfw_summary,     \* obtener_datos_gfw: identity block
    ev_resp,         \* obtener_datos_gfw: the event responses received so far
    all_events,      \* obtener_datos_gfw: merged entries
    gfw_exc,         \* obtener_datos_gfw: the exception an except clause caught
    datos_gfw,       \* result of obtener_datos_gfw
    response,        \* what accion_principal returned
    raised           \* the exception that escaped, if any

vars == <<pc, keys, calls, datos_posicion, coordenadas, weather_query, clima_actual,
          gfw_summary, ev_resp, all_events, gfw_exc, datos_gfw, response, raised>>

-----------------------------------------------------------------------------
(* Bounds of the model and constants of the program. *)

MaxEntries == 3       \* entries one event category returns, obtener_datos_gfw alone
MaxPipeEntries == 1   \* the same, inside a whole request
MaxStamp == 2         \* distinct start instants
SlotsPerDay == 2      \* instants per calendar day
SummaryLimit == 5     \* all_events[:5]
HTTP_OK == 200        \* events_response.status_code == 200

NULL == "None"
NoExc == [exc |-> "", in |-> ""]
Exc(e, f) == [exc |-> e, in |-> f]

Fixed(t) == [text |-> t, detail |-> "none"]
NoMsg == Fixed("")

-----------------------------------------------------------------------------
(* Position adapter *)

MSG_POS_NOKEY == Fixed("API Key de MyShipTracking no configurada.")
MSG_POS_NOT_FOUND == Fixed("No se encontro ningun barco con el numero IMO: {imo}.")
MSG_POS_UNKNOWN == Fixed("Error desconocido de la API.")
MSG_POS_CONN == Fixed("No se pudo conectar con la API de MyShipTracking.")
MSG_POS_PROVIDER == [text |-> "{api_response.message}", detail |-> "provider_message"]

Lats == {NULL, "-12.05"}
Lngs == {NULL, "-77.03"}

PosResp(t, data, lat, lng, code, message) ==
    [t |-> t, data |-> data, lat |-> lat, lng |-> lng, code |-> code, message |-> message]

\* What the provider can answer: a failed request (transport error or
\* non-2xx status, both a RequestException), a "success" payload whose data
\* object is there, absent or null, or another status with a code and a
\* message that are there or not.
PosResponses ==
    {PosResp("RequestException", "absent", NULL, NULL, "absent", "absent")}
    \cup {PosResp("success", "dict", lat, lng, "absent", "absent") : lat \in Lats, lng \in Lngs}
    \cup {PosResp("success", d, NULL, NULL, "absent", "absent") : d \in {"absent", "null"}}
    \cup {PosResp("failure", "absent", NULL, NULL, c, m) :
            c \in {"ERR_VESSEL_NOT_FOUND", "ERR_OTHER", "absent", "null"},
            m \in {"absent", "present"}}

PosError(m) == [raised |-> NoExc, kind |-> "error", error |-> m, latitud |-> NULL, longitud |-> NULL]
PosOk(lat, lng) == [raised |-> NoExc, kind |-> "ok", error |-> NoMsg, latitud |-> lat, longitud |-> lng]
PosRaise(e) == [raised |-> Exc(e, "obtener_datos_myshiptracking"), kind |-> "none",
                error |-> NoMsg, latitud |-> NULL, longitud |-> NULL]
NoPos == [raised |-> NoExc, kind |-> "none", error |-> NoMsg, latitud |-> NULL, longitud |-> NULL]

obtener_datos_myshiptracking(api_key, r) ==
    IF ~api_key THEN PosError(MSG_POS_NOKEY)
    ELSE IF r.t = "RequestException" THEN PosError(MSG_POS_CONN)
    ELSE IF r.t = "success"
         THEN IF r.data = "null" THEN PosRaise("AttributeError")
              ELSE PosOk(r.lat, r.lng)
    ELSE IF r.code = "null" THEN PosRaise("TypeError")
    ELSE IF r.code = "ERR_VESSEL_NOT_FOUND" THEN PosError(MSG_POS_NOT_FOUND)
    ELSE IF r.message = "present" THEN PosError(MSG_POS_PROVIDER)
    ELSE PosError(MSG_POS_UNKNOWN)

-----------------------------------------------------------------------------
(* Weather adapter *)

WeatherResponses ==
    {[t |-> "RequestException", has_text |-> FALSE, has_wind |-> FALSE]}
    \cup {[t |-> "ok", has_text |-> a, has_wind |-> b] : a, b \in BOOLEAN}

ClimaNone == [raised |-> NoExc, none |-> TRUE]
ClimaDict == [raised |-> NoExc, none |-> FALSE]
ClimaRaise(e) == [raised |-> Exc(e, "obtener_clima"), none |-> TRUE]

obtener_clima(r) ==
    IF r.t = "RequestException" THEN ClimaNone
    ELSE IF ~r.has_text \/ ~r.has_wind THEN ClimaRaise("KeyError")
    ELSE ClimaDict

CLIMA_NO_DISPONIBLE == "No disponible"
CLIMA_FMT == "Condicion: {condicion}, Viento: {viento_kph} kph."

ClimaActual(clima_data) == IF clima_data.none THEN CLIMA_NO_DISPONIBLE ELSE CLIMA_FMT

-----------------------------------------------------------------------------
(* Report synthesizer *)

MSG_IA_OK == Fixed("{completion.choices[0].message.content}")
MSG_IA_ERROR == [text |-> "Error al generar el analisis de la IA: {e}", detail |-> "exception_text"]

IaOutcomes == {"ok", "Exception"}

analizar_con_ia(outcome) == IF outcome = "ok" THEN MSG_IA_OK ELSE MSG_IA_ERROR

-----------------------------------------------------------------------------
(* Orchestrator: the tests and values of accion_principal *)

\* Variant: only the vessel-not-found failure ends the request early.
HasError_NotFoundOnly(d) == d.kind = "error" /\ d.error = MSG_POS_NOT_FOUND

HasError(d) == d.kind = "error"

HasLatitud(d) == d.latitud # NULL

Coordenadas(d) == <<d.latitud, d.longitud>>

NoResponse == [sent |-> FALSE, reporte |-> NoMsg, coordenadas |-> <<>>]
Respuesta(reporte, coords) == [sent |-> TRUE, reporte |-> reporte, coordenadas |-> coords]

ShortCircuit(d) == Respuesta(d.error, <<>>)

-----------------------------------------------------------------------------
(* Activity adapter: messages and result shapes *)

MSG_GFW_NOKEY == Fixed("API Key de Global Fishing Watch no configurada.")
MSG_GFW_NO_RECORDS == Fixed("No se encontraron registros publicos para este buque.")
MSG_GFW_NO_AIS == Fixed("El buque existe en GFW pero no tiene informacion de AIS reportada.")
MSG_GFW_HTTP ==
    Fixed("No fue posible consultar las bases de datos de actividad maritima en este momento.")
MSG_GFW_CONN == Fixed("No se pudo conectar con la API de Global Fishing Watch.")

NoSummary == [nombre_registrado |-> "", bandera |-> ""]

NoGfw == [kind |-> "none", msg |-> NoMsg, summary |-> NoSummary, eventos |-> <<>>]
GfwError(m) == [kind |-> "error", msg |-> m, summary |-> NoSummary, eventos |-> <<>>]
GfwInfo(m) == [kind |-> "info", msg |-> m, summary |-> NoSummary, eventos |-> <<>>]
GfwProfile(summary, eventos) ==
    [kind |-> "profile", msg |-> NoMsg, summary |-> summary, eventos |-> eventos]

\* Variant: one message for every caught exception.
GfwExcept_SingleMessage(e) == GfwError(MSG_GFW_HTTP)

\* The two except clauses: HTTPError first, any other RequestException second.
GfwExcept(e) == IF e = "HTTPError" THEN GfwError(MSG_GFW_HTTP) ELSE GfwError(MSG_GFW_CONN)

(* Identity phase *)

\* The search can fail in transport ("RequestException": no connection, a
\* timeout), answer a non-2xx status (raise_for_status:
\* "HTTPError"), or answer a payload: no entries, a first entry without
\* selfReportedInfo, or one with it and a registryInfo list that is absent,
\* empty or filled.
GfwSearchResponses ==
    {[t |-> t, entries |-> "empty", registry |-> "absent"] : t \in {"RequestException", "HTTPError"}}
    \cup {[t |-> "ok", entries |-> e, registry |-> "absent"] : e \in {"empty", "no_self_reported"}}
    \cup {[t |-> "ok", entries |-> "full", registry |-> g] : g \in {"absent", "empty", "present"}}

RegistryInfo(registry) == IF registry = "present" THEN "registryInfo[0]" ELSE "{}"

GfwSummary(registry_info) ==
    IF registry_info = "{}"
    THEN [nombre_registrado |-> "No disponible", bandera |-> "No disponible"]
    ELSE [nombre_registrado |-> "{shipname}", bandera |-> "{flag}"]

(* Event phase *)

Categories == <<"fishing", "port">>

TypeOf(cat) == IF cat = "fishing" THEN "fishing" ELSE "port_visit"

Stamps == 1..MaxStamp

\* An entry of a category: its type, and a start instant unless the key is absent.
EventsOf(cat) ==
    {[type |-> TypeOf(cat)]} \cup {[type |-> TypeOf(cat), start |-> s] : s \in Stamps}

EventLists(cat, n) == UNION {[1..m -> EventsOf(cat)] : m \in 0..n}

\* requests.get on the events URL: it raises (transport), or answers a status
\* other than 200, or 200 with a list of entries.
EventResponses(cat, n) ==
    {[t |-> "RequestException", status |-> 0, entries |-> <<>>],
     [t |-> "response", status |-> 503, entries |-> <<>>]}
    \cup {[t |-> "response", status |-> HTTP_OK, entries |-> s] : s \in EventLists(cat, n)}

\* Variant: the events response is checked with raise_for_status().
EventsStep_RaiseForStatus(all, r) ==
    IF r.t = "RequestException" THEN [exc |-> "RequestException", all |-> all]
    ELSE IF r.status # HTTP_OK THEN [exc |-> "HTTPError", all |-> all]
    ELSE [exc |-> "", all |-> all \o r.entries]

\* One pass of the loop body over a category's response.
EventsStep(all, r) ==
    IF r.t = "RequestException" THEN [exc |-> "RequestException", all |-> all]
    ELSE IF r.status = HTTP_OK /\ r.entries # <<>> THEN [exc |-> "", all |-> all \o r.entries]
    ELSE [exc |-> "", all |-> all]

(* Merge: sort, truncate, format *)

HasStart(e) == "start" \in DOMAIN e

SortKey(e) == IF HasStart(e) THEN e.start ELSE 0

\* list.sort(key=..., reverse=True) is stable: entries of equal key keep their order.
RECURSIVE InsertDesc(_, _)
InsertDesc(s, e) ==
    IF s = <<>> THEN <<e>>
    ELSE IF SortKey(Head(s)) >= SortKey(e) THEN <<Head(s)>> \o InsertDesc(Tail(s), e)
    ELSE <<e>> \o s

RECURSIVE SortInto(_, _)
SortInto(acc, s) == IF s = <<>> THEN acc ELSE SortInto(InsertDesc(acc, Head(s)), Tail(s))

SortDesc(s) == SortInto(<<>>, s)

Take(s, n) == SubSeq(s, 1, IF Len(s) < n THEN Len(s) ELSE n)

Title(type) == IF type = "fishing" THEN "Fishing" ELSE "Port Visit"

DateOf(start) == start \div SlotsPerDay

EVENT_FMT == "- Evento de '{event_type}' iniciado el {event_start}"
NO_EVENTS_LINE ==
    [text |-> "No se han registrado eventos notables en los ultimos 90 dias.", type |-> "", date |-> 0]

FormatEvent(e) == [text |-> EVENT_FMT, type |-> Title(e.type), date |-> DateOf(e.start)]

\* event.get("start").replace(...) on an entry without "start": None has no replace.
FormatRaises(top) == \E i \in 1..Len(top) : ~HasStart(top[i])

EventSummary(top) == [i \in 1..Len(top) |-> FormatEvent(top[i])]

\* Variant: the empty summary is returned as it is.
EventosRecientes_NoSubstitute(event_summary) == event_summary

EventosRecientes(event_summary) ==
    IF event_summary # <<>> THEN event_summary ELSE <<NO_EVENTS_LINE>>

-----------------------------------------------------------------------------
(* The state machine *)

InitCommon ==
    /\ calls = <<>>
    /\ datos_posicion = NoPos
    /\ coordenadas = <<>>
    /\ weather_query = <<>>
    /\ clima_actual = ""
    /\ gfw_summary = NoSummary
    /\ ev_resp = <<>>
    /\ all_events = <<>>
    /\ gfw_exc = ""
    /\ datos_gfw = NoGfw
    /\ response = NoResponse
    /\ raised = NoExc

\* A request enters accion_principal; each key is set or not.
Init ==
    /\ pc = "start"
    /\ keys \in [pos : BOOLEAN, gfw : BOOLEAN]
    /\ InitCommon

\* obtener_datos_gfw called on its own.
InitGfw ==
    /\ pc = "activity"
    /\ keys \in [pos : {TRUE}, gfw : BOOLEAN]
    /\ InitCommon

\* accion_principal, lines 179-182
CallPosition ==
    /\ pc = "start"
    /\ \E r \in PosResponses :
         LET d == obtener_datos_myshiptracking(keys.pos, r) IN
         /\ calls' = Append(calls, "position")
         /\ IF d.raised # NoExc
            THEN /\ raised' = d.raised
                 /\ pc' = "raised"
                 /\ UNCHANGED <<datos_posicion, response>>
            ELSE /\ datos_posicion' = d
                 /\ raised' = raised
                 /\ IF HasError(d)
                    THEN /\ response' = ShortCircuit(d)
                         /\ pc' = "done"
                    ELSE /\ response' = response
                         /\ pc' = "weather"
    /\ UNCHANGED <<keys, coordenadas, weather_query, clima_actual, gfw_summary, ev_resp,
                   all_events, gfw_exc, datos_gfw>>

\* accion_principal, lines 184-190, latitud present
CallWeather ==
    /\ pc = "weather"
    /\ HasLatitud(datos_posicion)
    /\ coordenadas' = Coordenadas(datos_posicion)
    /\ weather_query' = coordenadas'
    /\ calls' = Append(calls, "weather")
    /\ \E r \in WeatherResponses :
         LET clima_data == obtener_clima(r) IN
         IF clima_data.raised # NoExc
         THEN /\ raised' = clima_data.raised
              /\ pc' = "raised"
              /\ clima_actual' = CLIMA_NO_DISPONIBLE
         ELSE /\ raised' = raised
              /\ pc' = "activity"
              /\ clima_actual' = ClimaActual(clima_data)
    /\ UNCHANGED <<keys, datos_posicion, gfw_summary, ev_resp, all_events, gfw_exc,
                   datos_gfw, response>>

\* accion_principal, lines 184-186, latitud None
SkipWeather ==
    /\ pc = "weather"
    /\ ~HasLatitud(datos_posicion)
    /\ clima_actual' = CLIMA_NO_DISPONIBLE
    /\ coordenadas' = <<>>
    /\ pc' = "activity"
    /\ UNCHANGED <<keys, calls, datos_posicion, weather_query, gfw_summary, ev_resp,
                   all_events, gfw_exc, datos_gfw, response, raised>>

\* obtener_datos_gfw, lines 86-119: key test and identity phase
GfwSearch ==
    /\ pc = "activity"
    /\ calls' = Append(calls, "activity")
    /\ IF ~keys.gfw
       THEN /\ datos_gfw' = GfwError(MSG_GFW_NOKEY)
            /\ pc' = "gfw_done"
            /\ UNCHANGED <<gfw_summary, gfw_exc>>
       ELSE \E r \in GfwSearchResponses :
            IF r.t # "ok"
            THEN /\ gfw_exc' = r.t
                 /\ datos_gfw' = GfwExcept(r.t)
                 /\ pc' = "gfw_done"
                 /\ UNCHANGED gfw_summary
            ELSE IF r.entries = "empty"
            THEN /\ datos_gfw' = GfwInfo(MSG_GFW_NO_RECORDS)
                 /\ pc' = "gfw_done"
                 /\ UNCHANGED <<gfw_summary, gfw_exc>>
            ELSE IF r.entries = "no_self_reported"
            THEN /\ datos_gfw' = GfwInfo(MSG_GFW_NO_AIS)
                 /\ pc' = "gfw_done"
                 /\ UNCHANGED <<gfw_summary, gfw_exc>>
            ELSE /\ gfw_summary' = GfwSummary(RegistryInfo(r.registry))
                 /\ pc' = "gfw_events"
                 /\ UNCHANGED <<datos_gfw, gfw_exc>>
    /\ UNCHANGED <<keys, datos_posicion, coordenadas, weather_query, clima_actual, ev_resp,
                   all_events, response, raised>>

\* obtener_datos_gfw, lines 132-140: one pass of the loop over the categories
GfwFetchEvents(n) ==
    /\ pc = "gfw_events"
    /\ Len(ev_resp) < Len(Categories)
    /\ \E r \in EventResponses(Categories[Len(ev_resp) + 1], n) :
         LET step == EventsStep(all_events, r) IN
         /\ ev_resp' = Append(ev_resp, r)
         /\ all_events' = step.all
         /\ IF step.exc # ""
            THEN /\ gfw_exc' = step.exc
                 /\ datos_gfw' = GfwExcept(step.exc)
                 /\ pc' = "gfw_done"
            ELSE /\ UNCHANGED <<gfw_exc, datos_gfw>>
                 /\ pc' = IF Len(ev_resp') = Len(Categories) THEN "gfw_merge" ELSE "gfw_events"
    /\ UNCHANGED <<keys, calls, datos_posicion, coordenadas, weather_query, clima_actual,
                   gfw_summary, response, raised>>

\* obtener_datos_gfw, lines 142-152: sort, truncate, format, return
GfwMerge ==
    /\ pc = "gfw_merge"
    /\ all_events' = SortDesc(all_events)
    /\ LET top == Take(all_events', SummaryLimit) IN
       IF FormatRaises(top)
       THEN /\ raised' = Exc("AttributeError", "obtener_datos_gfw")
            /\ pc' = "raised"
            /\ UNCHANGED datos_gfw
       ELSE /\ datos_gfw' = GfwProfile(gfw_summary, EventosRecientes(EventSummary(top)))
            /\ pc' = "gfw_done"
            /\ UNCHANGED raised
    /\ UNCHANGED <<keys, calls, datos_posicion, coordenadas, weather_query, clima_actual,
                   gfw_summary, ev_resp, gfw_exc, response>>

\* accion_principal, lines 194-213: brief, generation, return
Synth ==
    /\ pc = "gfw_done"
    /\ calls' = Append(calls, "synth")
    /\ \E outcome \in IaOutcomes :
         response' = Respuesta(analizar_con_ia(outcome), coordenadas)
    /\ pc' = "done"
    /\ UNCHANGED <<keys, datos_posicion, coordenadas, weather_query, clima_actual,
                   gfw_summary, ev_resp, all_events, gfw_exc, datos_gfw, raised>>

Next ==
    \/ CallPosition
    \/ CallWeather
    \/ SkipWeather
    \/ GfwSearch
    \/ GfwFetchEvents(MaxPipeEntries)
    \/ GfwMerge
    \/ Synth

Spec == Init /\ [][Next]_vars

NextGfw ==
    \/ GfwSearch
    \/ GfwFetchEvents(MaxEntries)
    \/ GfwMerge

SpecGfw == InitGfw /\ [][NextGfw]_vars

-----------------------------------------------------------------------------
(* Vocabulary of the properties *)

Terminal == pc \in {"done", "raised"}

Range(s) == {s[i] : i \in DOMAIN s}

Count(s, x) == Cardinality({i \in DOMAIN s : s[i] = x})

IsPermutation(a, b) ==
    /\ Len(a) = Len(b)
    /\ \A x \in Range(a) \cup Range(b) : Count(a, x) = Count(b, x)

\* The entries of the categories that answered 200, in the order received.
RECURSIVE AnsweredEntries(_)
AnsweredEntries(resps) ==
    IF resps = <<>> THEN <<>>
    ELSE (IF Head(resps).t = "response" /\ Head(resps).status = HTTP_OK
          THEN Head(resps).entries ELSE <<>>) \o AnsweredEntries(Tail(resps))

\* Every event query so far got an HTTP response (of whatever status).
AllAnswered == \A k \in 1..Len(ev_resp) : ev_resp[k].t = "response"

\* Both event queries were answered and the merge step has run.
MergeRan == Len(ev_resp) = Len(Categories) /\ AllAnswered /\ pc # "gfw_merge"

NonIncreasingByStart(s) == \A i, j \in 1..Len(s) : i < j => SortKey(s[i]) >= SortKey(s[j])

NonIncreasingByDate(lines) ==
    \A i, j \in 1..Len(lines) : i < j => lines[i].date >= lines[j].date

-----------------------------------------------------------------------------
(* C1: whenever the position adapter returns a failure (no key, connection,
   provider error, vessel not found), accion_principal returns that failure's
   message as the report with coordinates None, and it has invoked the
   position adapter and nothing else. *)
C1_PositionFailureShortCircuits ==
    datos_posicion.kind = "error" =>
        /\ datos_posicion.error \in
              {MSG_POS_NOKEY, MSG_POS_CONN, MSG_POS_NOT_FOUND, MSG_POS_PROVIDER, MSG_POS_UNKNOWN}
        /\ pc = "done"
        /\ response = Respuesta(datos_posicion.error, <<>>)
        /\ calls = <<"position">>

\* C1 witness: a connection failure of the position provider ended the request.
C1_Witness ==
    /\ pc = "done"
    /\ datos_posicion.error = MSG_POS_CONN
    /\ response.sent
    /\ response.reporte = MSG_POS_CONN

(* C2: the returned coordinates are not None only if the position result
   carried both a latitude and a longitude; the pair never holds a None. *)
C2_Claim ==
    (response.sent /\ response.coordenadas # <<>>) =>
        /\ datos_posicion.latitud # NULL
        /\ datos_posicion.longitud # NULL
        /\ \A i \in 1..Len(response.coordenadas) : response.coordenadas[i] # NULL

(* C3: whatever the adapters meet, accion_principal ends by returning a
   response; no exception leaves it. *)
C3_Claim ==
    /\ raised = NoExc
    /\ pc # "raised"

(* C4: once both event queries were answered, obtener_datos_gfw returns a
   profile whose event lines are the formatted first five entries of the
   merged list, the merged list being the concatenation of the answered
   entries ordered by start, latest first, an absent start lowest. *)
C4_Claim ==
    MergeRan =>
        /\ datos_gfw.kind = "profile"
        /\ IsPermutation(all_events, AnsweredEntries(ev_resp))
        /\ NonIncreasingByStart(all_events)
        /\ Len(datos_gfw.eventos) <= SummaryLimit
        /\ NonIncreasingByDate(datos_gfw.eventos)
        /\ all_events # <<>> =>
              Len(datos_gfw.eventos) = Len(Take(all_events, SummaryLimit))

(* C5: no failure of the weather call leaves obtener_clima as an exception. *)
C5_Claim == raised.in # "obtener_clima"

(* C6: the report returned to the user never embeds the text of an exception
   or a field of a provider's payload. *)
C6_Claim == response.sent => response.reporte.detail = "none"

(* C7: a request whose position lookup succeeded ends having invoked the
   position adapter, the weather adapter if and only if coordinates were set,
   the activity adapter and the synthesizer, each once and in that order. *)
C7_Claim ==
    (Terminal /\ datos_posicion.kind = "ok") =>
        calls = <<"position">>
                \o (IF coordenadas # <<>> THEN <<"weather">> ELSE <<>>)
                \o <<"activity", "synth">>

(* C8: when the identity phase succeeded and both event queries brought no
   entry, the profile's event list is exactly the fixed no-activity line; when
   an entry was retained, the list has one line per retained entry and the
   fixed line is not among them. *)
C8_NoActivityLine ==
    MergeRan =>
        LET got == AnsweredEntries(ev_resp) IN
        /\ got = <<>> =>
              /\ datos_gfw.kind = "profile"
              /\ datos_gfw.eventos = <<NO_EVENTS_LINE>>
        /\ (got # <<>> /\ datos_gfw.kind = "profile") =>
              /\ Len(datos_gfw.eventos) = Len(Take(got, SummaryLimit))
              /\ \A i \in 1..Len(datos_gfw.eventos) : datos_gfw.eventos[i] # NO_EVENTS_LINE

\* C8 witness: identity found, both categories answered without entries
\* (one by a 200 with none, one by another status), fixed line returned.
C8_Witness ==
    /\ MergeRan
    /\ ev_resp[1].status = HTTP_OK
    /\ ev_resp[2].status # HTTP_OK
    /\ AnsweredEntries(ev_resp) = <<>>
    /\ datos_gfw.eventos = <<NO_EVENTS_LINE>>

(* C9: whatever statuses the event queries answer, they produce no failure:
   no exception is caught, the result is never an error or an informational
   result, the merged list holds exactly the entries of the categories that
   answered 200, and the result is a profile holding their lines whenever
   those entries carry a start. *)
C9_Non200Skipped ==
    (Len(ev_resp) >= 1 /\ AllAnswered) =>
        LET got == AnsweredEntries(ev_resp) IN
        /\ gfw_exc = ""
        /\ datos_gfw.kind \notin {"error", "info"}
        /\ pc \in {"gfw_events", "gfw_merge"} => all_events = got
        /\ IsPermutation(all_events, got)
        /\ (MergeRan /\ \A i \in 1..Len(got) : HasStart(got[i])) =>
              /\ datos_gfw.kind = "profile"
              /\ (got # <<>> /\ Len(got) <= SummaryLimit) =>
                    IsPermutation(datos_gfw.eventos, [i \in 1..Len(got) |-> FormatEvent(got[i])])

\* C9 witness: the fishing query was refused, the port-visit query answered
\* 200 with entries, and the profile holds one line per port-visit entry.
C9_Witness ==
    /\ MergeRan
    /\ ev_resp[1].status # HTTP_OK
    /\ ev_resp[2].status = HTTP_OK
    /\ ev_resp[2].entries # <<>>
    /\ datos_gfw.kind = "profile"
    /\ Len(datos_gfw.eventos) = Len(ev_resp[2].entries)

(* C10, as stated: every exception of the HTTP client caught in either phase
   yields the failure carrying the one "cannot consult the activity databases
   at this time" message. *)
C10_Claim == gfw_exc # "" => datos_gfw = GfwError(MSG_GFW_HTTP)

(* C10, amended: an HTTP error status of the identity search yields the
   failure with the "cannot consult the activity databases" message; a
   connection-level failure in either phase yields the failure with the
   "could not connect" message; neither is ever informational, and both end
   the adapter. *)
C10_TransportFailures ==
    /\ gfw_exc = "HTTPError" =>
          /\ datos_gfw = GfwError(MSG_GFW_HTTP)
          /\ ev_resp = <<>>
    /\ gfw_exc = "RequestException" => datos_gfw = GfwError(MSG_GFW_CONN)
    /\ gfw_exc # "" =>
          /\ datos_gfw.kind = "error"
          /\ pc \notin {"gfw_events", "gfw_merge"}
    /\ (\E k \in 1..Len(ev_resp) : ev_resp[k].t = "RequestException") =>
          /\ gfw_exc = "RequestException"
          /\ datos_gfw = GfwError(MSG_GFW_CONN)
    /\ (ev_resp = <<>> /\ datos_gfw.kind = "error" /\ keys.gfw) => gfw_exc # ""

\* C10 witness: the connection dropped on the second event query.
C10_Witness ==
    /\ Len(ev_resp) = Len(Categories)
    /\ ev_resp[2].t = "RequestException"
    /\ gfw_exc = "RequestException"
    /\ datos_gfw = GfwError(MSG_GFW_CONN)

====
